---- MODULE Spec2Model ----
(***************************************************************************)
(* A model of the RoPADet glue code:                                       *)
(*   examples/wav2vec/profiles_gen.py   (collate_fn, MyDataset, the        *)
(*                                       profile generation script)       *)
(*   fairseq/criterions/cross_entropy.py (CrossEntropyCriterion)           *)
(*                                                                         *)
(* Tensors are sequences; real numbers are exact rationals <<num, den>>    *)
(* in lowest terms with den > 0, so that a mean is a genuine division.     *)
(***************************************************************************)
EXTENDS Integers, Sequences, FiniteSets, TLC

VARIABLES
    \* ---- profiles_gen.py, the script ----
    argsPath,     \* args.path, a sequence of one-character strings
    dataset,      \* test_dataset in loader order: records [id, x]; x is the model's
                  \* features_only output outs['x'] for that utterance, of shape
                  \* (1, frames, channels)
    cursor,       \* number of batches the DataLoader has already yielded
    keys,         \* the keys of `profiles` in insertion order (dict iteration order)
    profiles,     \* the defaultdict: key -> [kind |-> "list" | "mean", val |-> ...]
    keyIdx,       \* position of the `for key, val in profiles.items()` iterator
    count,        \* the script's `count`
    stdout,       \* what the finalisation loop printed: <<key, len(val)>> per line
    savePath,     \* SAVE_PATH
    disk,         \* the torch.save calls so far: records [path, content]
    pc,           \* position of the script: "loop", "reduce", "save", "done"
    \* ---- profiles_gen.py, MyDataset / collate_fn ----
    cDataset,     \* a MyDataset: records [id, x, y], x a n_ftrs x k feature array
    cBatch,       \* the list handed to collate_fn (MyDataset.__getitem__ results)
    cOut,         \* what collate_fn returned
    cpc,          \* "fetch", "collate", "done"
    \* ---- cross_entropy.py, forward / compute_loss ----
    task,         \* [encoder_contrastive, sentence_avg]
    sample,       \* [target, ntokens, rows, aux]: the batch and what the model makes of it
    reduceArg,    \* the `reduce` argument
    fwdOut,       \* outcome of CrossEntropyCriterion.forward
    lossOut,      \* outcome of CrossEntropyCriterion.compute_loss called on its own
    \* ---- cross_entropy.py, reduce_metrics ----
    loggingOutputs, \* the list given to reduce_metrics
    metricsLog,   \* the metrics.log_scalar / log_derived calls made, in order
    metricsErr    \* "pending" (not called yet), "none" or the exception raised

vars == <<argsPath, dataset, cursor, keys, profiles, keyIdx, count, stdout, savePath,
          disk, pc, cDataset, cBatch, cOut, cpc, task, sample, reduceArg, fwdOut,
          lossOut, loggingOutputs, metricsLog, metricsErr>>

profVars == <<argsPath, dataset, cursor, keys, profiles, keyIdx, count, stdout,
              savePath, disk, pc>>
collVars == <<cDataset, cBatch, cOut, cpc>>
critVars == <<task, sample, reduceArg, fwdOut, lossOut>>
metrVars == <<loggingOutputs, metricsLog, metricsErr>>

(***************************************************************************)
(* Exact arithmetic                                                        *)
(***************************************************************************)
Abs(n) == IF n < 0 THEN -n ELSE n

Max2(a, b) == IF a >= b THEN a ELSE b

Min2(a, b) == IF a <= b THEN a ELSE b

RECURSIVE GCD(_, _)
GCD(a, b) == IF b = 0 THEN a ELSE GCD(b, a % b)

\* n / d for d > 0, in lowest terms
Frac(n, d) ==
    LET g == GCD(Abs(n), d)
    IN  IF g = 0 THEN <<0, 1>> ELSE <<n \div g, d \div g>>

RAdd(p, q) == Frac(p[1] * q[2] + q[1] * p[2], p[2] * q[2])

RDivInt(p, n) == Frac(p[1], p[2] * n)

RZero == <<0, 1>>

\* the sum of a non-empty sequence of equal-length rational vectors, left to right
RECURSIVE VecSum(_)
VecSum(vs) ==
    IF Len(vs) = 1 THEN vs[1]
    ELSE LET s == VecSum(SubSeq(vs, 1, Len(vs) - 1))
             v == vs[Len(vs)]
         IN  [c \in 1..Len(v) |-> RAdd(s[c], v[c])]

\* torch.mean(torch.stack(vs), dim=0)
StackMean(vs) ==
    LET s == VecSum(vs) IN [c \in 1..Len(s) |-> RDivInt(s[c], Len(vs))]

\* torch.mean(x, dim=0) of an integer frames x channels matrix
TimeMean(x) ==
    StackMean([t \in 1..Len(x) |-> [c \in 1..Len(x[t]) |-> <<x[t][c], 1>>]])

(***************************************************************************)
(* profiles_gen.py: the profile generation script                          *)
(***************************************************************************)
MaxObs == 3

Ids == {"A", "B"}

\* outs['x'] for batch size 1: one (frames x channels) matrix inside the batch
\* dimension.  The encoder emits several frames of several channels per utterance.
ModelOutputs ==
    { << << <<1, 1>>, <<1, 1>> >> >>,
      << << <<2, 4>>, <<4, 2>> >> >>,
      << << <<0, 1>>, <<1, 2>>, <<2, 0>> >> >> }

\* checkpoint paths given as --path
CheckpointPaths ==
    { <<"/", "d", "/", "m">>,
      <<"d", "/", "e", "/", "m">>,
      <<"d", "/", "m">>,
      <<"/", "m">>,
      <<"m", ".", "p", "t">> }

SeqsUpTo(S, n) == UNION { [1..k -> S] : k \in 0..n }

Datasets == SeqsUpTo([id : Ids, x : ModelOutputs], MaxObs)

\* Tensor.squeeze() of a (1, T, C) tensor with T > 1 and C > 1: the batch
\* dimension goes
Squeeze(x) == IF Len(x) = 1 THEN x[1] ELSE x

\* str.rfind(c): the 0-based index of the last occurrence, or -1
RFind(s, c) ==
    IF \E i \in 1..Len(s) : s[i] = c
    THEN (CHOOSE i \in 1..Len(s) : s[i] = c /\ \A j \in (i + 1)..Len(s) : s[j] # c) - 1
    ELSE -1

\* s[:stop] with Python's treatment of a negative or too large stop
SliceTo(s, stop) ==
    LET n == Len(s)
        e == IF stop < 0 THEN Max2(n + stop, 0) ELSE Min2(stop, n)
    IN  SubSeq(s, 1, e)

ProfileSuffix == <<"/", "p", "r", "o", "f", "i", "l", "e", ".", "p", "t">>

\* SAVE_PATH = args.path[:args.path.rfind('/')] + '/profile.pt'
SavePathOf(path) == SliceTo(path, RFind(path, "/")) \o ProfileSuffix

\* profiles[key] = [outputs]: the entry is replaced, not appended to
AppendProfileOverwrites(prof, ks, key, emb) ==
    IF \E i \in 1..Len(ks) : ks[i] = key
    THEN [i \in 1..Len(ks) |->
            IF ks[i] = key THEN [kind |-> "list", val |-> <<emb>>] ELSE prof[i]]
    ELSE Append(prof, [kind |-> "list", val |-> <<emb>>])

\* profiles[key].append(outputs) on a defaultdict(list)
AppendProfile(prof, ks, key, emb) ==
    IF \E i \in 1..Len(ks) : ks[i] = key
    THEN [i \in 1..Len(ks) |->
            IF ks[i] = key
            THEN [kind |-> "list", val |-> Append(prof[i].val, emb)]
            ELSE prof[i]]
    ELSE Append(prof, [kind |-> "list", val |-> <<emb>>])

\* one iteration of `for ids, inputs, labels, lengths in dataloader` (batch size 1)
Accumulate ==
    /\ pc = "loop"
    /\ cursor < Len(dataset)
    /\ LET item == dataset[cursor + 1]
           outputs == TimeMean(Squeeze(item.x))
       IN  /\ profiles' = AppendProfile(profiles, keys, item.id, outputs)
           /\ keys' = IF \E i \in 1..Len(keys) : keys[i] = item.id
                      THEN keys ELSE Append(keys, item.id)
    /\ cursor' = cursor + 1
    /\ UNCHANGED <<argsPath, dataset, keyIdx, count, stdout, savePath, disk, pc>>
    /\ UNCHANGED <<collVars, critVars, metrVars>>

\* the DataLoader is exhausted: count = 0 and the finalisation loop starts
EndOfPass ==
    /\ pc = "loop"
    /\ cursor = Len(dataset)
    /\ count' = 0
    /\ keyIdx' = 0
    /\ pc' = "reduce"
    /\ UNCHANGED <<argsPath, dataset, cursor, keys, profiles, stdout, savePath, disk>>
    /\ UNCHANGED <<collVars, critVars, metrVars>>

\* profiles[key] = torch.mean(torch.stack(val), dim=0)
ReduceEntry(prof, i) ==
    [prof EXCEPT ![i] = [kind |-> "mean", val |-> StackMean(prof[i].val)]]

\* one iteration of `for key, val in profiles.items()`
Finalize ==
    /\ pc = "reduce"
    /\ keyIdx < Len(keys)
    /\ LET i == keyIdx + 1
       IN  /\ stdout' = Append(stdout, <<keys[i], Len(profiles[i].val)>>)
           /\ count' = count + Len(profiles[i].val)
           /\ profiles' = ReduceEntry(profiles, i)
    /\ keyIdx' = keyIdx + 1
    /\ UNCHANGED <<argsPath, dataset, cursor, keys, savePath, disk, pc>>
    /\ UNCHANGED <<collVars, critVars, metrVars>>

\* the items() iterator is exhausted: print(count), SAVE_PATH is computed
EndOfReduce ==
    /\ pc = "reduce"
    /\ keyIdx = Len(keys)
    /\ savePath' = SavePathOf(argsPath)
    /\ pc' = "save"
    /\ UNCHANGED <<argsPath, dataset, cursor, keys, profiles, keyIdx, count, stdout, disk>>
    /\ UNCHANGED <<collVars, critVars, metrVars>>

\* torch.save also placed ahead of the finalisation loop
SaveBeforeReduce ==
    /\ \/ /\ pc = "reduce" /\ keyIdx = 0 /\ disk = <<>>
          /\ pc' = pc
       \/ /\ pc = "save"
          /\ pc' = "done"
    /\ disk' = Append(disk, [path |-> SavePathOf(argsPath), keys |-> keys,
                             content |-> profiles])
    /\ UNCHANGED <<argsPath, dataset, cursor, keys, profiles, keyIdx, count, stdout, savePath>>
    /\ UNCHANGED <<collVars, critVars, metrVars>>

\* torch.save(profiles, SAVE_PATH); the script ends
Save ==
    /\ pc = "save"
    /\ disk' = Append(disk, [path |-> savePath, keys |-> keys, content |-> profiles])
    /\ pc' = "done"
    /\ UNCHANGED <<argsPath, dataset, cursor, keys, profiles, keyIdx, count, stdout, savePath>>
    /\ UNCHANGED <<collVars, critVars, metrVars>>

(***************************************************************************)
(* profiles_gen.py: MyDataset and collate_fn                               *)
(***************************************************************************)
MaxBatch == 2

MaxLen == 2

NFtrs == 2

\* a n_ftrs x k feature array whose entries are pairwise different
FeatureArray(base, k) == [f \in 1..NFtrs |-> [t \in 1..k |-> base + 10 * f + t]]

FeatureArrays == { FeatureArray(b, k) : b \in {0, 100}, k \in 0..MaxLen }

\* the datasets MyDataset(ids, data, targets) is built on
CollateDatasets ==
    UNION { [1..n -> [id : Ids, x : FeatureArrays, y : {0, 1}]] : n \in 1..MaxBatch }

\* ndarray.shape of a two-dimensional array with at least one row
Shape(x) == <<Len(x), Len(x[1])>>

\* MyDataset.__getitem__(index), index 0-based
GetItem(ds, index) ==
    LET id == ds[index + 1].id
        x  == ds[index + 1].x
        y  == ds[index + 1].y
    IN  <<id, x, y, Shape(x)[2]>>

\* max(lengths)
MaxOf(ls) == CHOOSE m \in { ls[i] : i \in 1..Len(ls) } : \A i \in 1..Len(ls) : ls[i] <= m

\* torch.zeros((r, c))
Zeros(r, c) == [f \in 1..r |-> [t \in 1..c |-> 0]]

\* torch.cat([a, b], dim=1) of two matrices with the same number of rows
CatDim1(a, b) == [f \in 1..Len(a) |-> a[f] \o b[f]]

\* row[:k] = 1
FillPrefix(row, k) ==
    LET e == Len(SliceTo(row, k)) IN [t \in 1..Len(row) |-> IF t <= e THEN 1 ELSE row[t]]

\* the zeros concatenated ahead of the example instead of after it
PadExampleLeft(x, n_ftrs, max_len) ==
    LET j == Shape(x)[1]
        k == Shape(x)[2]
    IN  IF max_len - k < 0 \/ j # n_ftrs THEN <<>>
        ELSE CatDim1(Zeros(j, max_len - k), x)

\* features[i] = torch.cat([x, zeros((j, max_len - k))], dim=1): what is stored, or
\* <<>> when torch refuses the shapes
PadExample(x, n_ftrs, max_len) ==
    LET j == Shape(x)[1]
        k == Shape(x)[2]
    IN  IF max_len - k < 0 \/ j # n_ftrs THEN <<>>
        ELSE CatDim1(x, Zeros(j, max_len - k))

\* lengths[i][:k + 1] = 1: one position too many
MaskRowOffByOne(x, max_len) == FillPrefix([t \in 1..max_len |-> 0], Shape(x)[2] + 1)

\* lengths[i][:k] = 1 on a row of zeros
MaskRow(x, max_len) == FillPrefix([t \in 1..max_len |-> 0], Shape(x)[2])

\* collate_fn(data)
CollateFn(data) ==
    LET ids     == [i \in 1..Len(data) |-> data[i][1]]
        labels  == [i \in 1..Len(data) |-> data[i][3]]
        lengths == [i \in 1..Len(data) |-> data[i][4]]
        max_len == MaxOf(lengths)
        n_ftrs  == Shape(data[1][2])[1]
        padded  == [i \in 1..Len(data) |-> PadExample(data[i][2], n_ftrs, max_len)]
    IN  IF \E i \in 1..Len(data) : padded[i] = <<>> /\ n_ftrs > 0
        THEN [status |-> "error", ids |-> <<>>, features |-> <<>>, labels |-> <<>>,
              lengths |-> <<>>]
        ELSE [status   |-> "ok",
              ids      |-> ids,
              features |-> padded,
              labels   |-> labels,
              lengths  |-> [i \in 1..Len(data) |-> MaskRow(data[i][2], max_len)]]

NoBatchOut == [status |-> "none", ids |-> <<>>, features |-> <<>>, labels |-> <<>>,
               lengths |-> <<>>]

\* the DataLoader's fetcher: [dataset[i] for i in batch_indices], the whole dataset
\* being one batch
Fetch ==
    /\ cpc = "fetch"
    /\ cBatch' = [i \in 1..Len(cDataset) |-> GetItem(cDataset, i - 1)]
    /\ cpc' = "collate"
    /\ UNCHANGED <<cDataset, cOut>>
    /\ UNCHANGED <<profVars, critVars, metrVars>>

\* the DataLoader's call of collate_fn on the fetched list
Collate ==
    /\ cpc = "collate"
    /\ cOut' = CollateFn(cBatch)
    /\ cpc' = "done"
    /\ UNCHANGED <<cDataset, cBatch>>
    /\ UNCHANGED <<profVars, critVars, metrVars>>

(***************************************************************************)
(* cross_entropy.py: CrossEntropyCriterion.forward and compute_loss        *)
(*                                                                         *)
(* A loss is a real number a * (ln 2 / 100) + q with a an integer and q a  *)
(* rational: the classification term is a weighted sum of log-probabilities*)
(* held in hundredths of a bit, the auxiliary terms are rational.  ln 2    *)
(* being irrational, the pair <<a, q>> determines the number and back.     *)
(***************************************************************************)
MaxRows == 2

\* the two class weights exchanged
ClassWeightSwapped == <<7, 1>>

\* weight=torch.tensor([1.0, 7.0])
ClassWeight == <<1, 7>>

\* 0.0005, as the rational 1/2000
ContrastiveWeight == <<1, 2000>>

\* The classifier's logits for one example, given by what the framework derives
\* from them: lp, the log-softmax in hundredths of a bit, and p, the softmax in
\* quarters (3/4 and 1/4, 1/2 and 1/2, 1/4 and 3/4).
LogitRows ==
    { [lp |-> <<-42, -200>>, p |-> <<3, 1>>],
      [lp |-> <<-100, -100>>, p |-> <<2, 2>>],
      [lp |-> <<-200, -42>>, p |-> <<1, 3>>] }

AEVectors == { <<0, 0>>, <<1, 3>> }

HiddenPairs == { "near", "far" }

Samples ==
    UNION { [target   : [1..n -> {0, 1}],
             ntokens  : {n, 3 * n},
             rows     : [1..n -> LogitRows],
             ae_input : AEVectors,
             ae_output: AEVectors,
             hidden   : HiddenPairs] : n \in 1..MaxRows }

\* net_output = model(**sample["net_input"]): the logits tensor, or with the
\* encoder/contrastive task flag the 5-tuple that ends in it
ModelCall(tk, smp) ==
    IF tk.encoder_contrastive
    THEN [kind |-> "tuple", rows |-> smp.rows, ae_input |-> smp.ae_input,
          ae_output |-> smp.ae_output, hidden |-> smp.hidden]
    ELSE [kind |-> "tensor", rows |-> smp.rows, ae_input |-> <<>>,
          ae_output |-> <<>>, hidden |-> "absent"]

\* model.get_normalized_probs(net_output, log_probs=True).view(-1, C)
GetNormalizedProbs(rows) == [i \in 1..Len(rows) |-> rows[i].lp]

\* F.softmax(net_output, dim=1)
Softmax(rows) == [i \in 1..Len(rows) |-> rows[i].p]

RECURSIVE SumSeq(_)
SumSeq(xs) == IF xs = <<>> THEN 0 ELSE xs[1] + SumSeq(Tail(xs))

\* F.nll_loss(lprobs, target, reduction=..., weight=ClassWeight): the weighted
\* terms -w[t_i] * lprobs[i][t_i], summed when reduction is "sum"
NllLoss(lprobs, target, reduction) ==
    LET term == [i \in 1..Len(lprobs) |->
                    -(ClassWeight[target[i] + 1] * lprobs[i][target[i] + 1])]
    IN  IF reduction = "sum" THEN <<SumSeq(term)>> ELSE term

\* torch.nn.MSELoss()(a, b): the mean of the squared differences
MSELoss(a, b) ==
    Frac(SumSeq([i \in 1..Len(a) |-> (a[i] - b[i]) * (a[i] - b[i])]), Len(a))

\* SupConLoss()(torch.stack([ae_hidden_output, cnn_hidden_output], dim=1))
SupConLoss(hidden) == IF hidden = "near" THEN <<1, 1>> ELSE <<4, 1>>

RMul(p, q) == Frac(p[1] * q[1], p[2] * q[2])

\* lprobs.argmax(dim=1): the first index (0-based) holding the row's maximum
ArgMax(lprobs) ==
    [i \in 1..Len(lprobs) |->
        (CHOOSE c \in 1..Len(lprobs[i]) :
            /\ \A d \in 1..Len(lprobs[i]) : lprobs[i][d] <= lprobs[i][c]
            /\ \A d \in 1..(c - 1) : lprobs[i][d] < lprobs[i][c]) - 1]

\* the auxiliary terms added whatever the task flag says
AuxTermUnconditional(tk, net_output) ==
    RAdd(MSELoss(net_output.ae_output, net_output.ae_input),
         RMul(ContrastiveWeight, SupConLoss(net_output.hidden)))

\* the terms added to the classification loss:
\* loss = ae_loss + loss + 0.0005 * cl_loss under the task flag, nothing without it
AuxTerm(tk, net_output) ==
    IF tk.encoder_contrastive
    THEN RAdd(MSELoss(net_output.ae_output, net_output.ae_input),
              RMul(ContrastiveWeight, SupConLoss(net_output.hidden)))
    ELSE RZero

\* CrossEntropyCriterion.compute_loss(model, net_output, sample, reduce):
\* (loss, (preds, target)); loss has one entry when reduce, one per example otherwise
ComputeLoss(tk, net_output, smp, reduce) ==
    LET lprobs == GetNormalizedProbs(net_output.rows)
        target == smp.target
        nll    == NllLoss(lprobs, target, IF reduce THEN "sum" ELSE "none")
        aux    == AuxTerm(tk, net_output)
    IN  [loss   |-> [i \in 1..Len(nll) |-> <<nll[i], aux>>],
         preds  |-> ArgMax(lprobs),
         target |-> target]

\* (outputs[0] == outputs[1]).sum()
CountEqual(a, b) == Cardinality({ i \in 1..Len(a) : a[i] = b[i] })

NoLogging == [loss |-> <<>>, ntokens |-> 0, nsentences |-> 0, sample_size |-> 0,
              ncorrect |-> 0, predicts |-> <<>>, targets |-> <<>>]

\* CrossEntropyCriterion.forward(model, sample, reduce)
Forward(tk, smp, reduce) ==
    LET net_output  == ModelCall(tk, smp)
        out         == ComputeLoss(tk, net_output, smp, reduce)
        sample_size == IF tk.sentence_avg THEN Len(smp.target) ELSE smp.ntokens
    IN  IF net_output.kind # "tensor"
        THEN \* F.softmax(net_output, dim=1) on a tuple
             [status |-> "AttributeError", loss |-> <<>>, sample_size |-> 0,
              logging_output |-> NoLogging]
        ELSE LET raw_predicts == Softmax(net_output.rows)
                 predicts == [i \in 1..Len(raw_predicts) |-> raw_predicts[i][2]]
             IN  [status |-> "returned",
                  loss |-> out.loss,
                  sample_size |-> sample_size,
                  logging_output |->
                     [loss        |-> out.loss,
                      ntokens     |-> smp.ntokens,
                      nsentences  |-> Len(smp.target),
                      sample_size |-> sample_size,
                      ncorrect    |-> CountEqual(out.preds, out.target),
                      predicts    |-> predicts,
                      targets     |-> out.target]]

NoForward == [status |-> "none", loss |-> <<>>, sample_size |-> 0,
              logging_output |-> NoLogging]

NoLoss == [status |-> "none", loss |-> <<>>, preds |-> <<>>, target |-> <<>>]

\* the trainer calls criterion(model, sample)
CallForward ==
    /\ fwdOut.status = "none"
    /\ fwdOut' = Forward(task, sample, reduceArg)
    /\ UNCHANGED <<task, sample, reduceArg, lossOut>>
    /\ UNCHANGED <<profVars, collVars, metrVars>>

\* compute_loss called directly on the model's output
CallComputeLoss ==
    /\ lossOut.status = "none"
    /\ lossOut' = [status |-> "returned"] @@ ComputeLoss(task, ModelCall(task, sample), sample, reduceArg)
    /\ UNCHANGED <<task, sample, reduceArg, fwdOut>>
    /\ UNCHANGED <<profVars, collVars, metrVars>>

(***************************************************************************)
(* cross_entropy.py: CrossEntropyCriterion.reduce_metrics                  *)
(*                                                                         *)
(* A logging record is a dict, held as a set of <<key, value>> pairs with  *)
(* at most one pair per key; its values are Python numbers.                *)
(***************************************************************************)
MaxLogs == 2

MaxCount == 1

LossValues == {2, 5}

\* the records forward builds, with sample_size the sentence count under
\* sentence_avg and the token count otherwise, and the record with no field
LogRecords(sentence_avg) ==
    { { <<"loss", l>>, <<"ntokens", nt>>, <<"nsentences", ns>>,
        <<"sample_size", IF sentence_avg THEN ns ELSE nt>>, <<"ncorrect", nc>> } :
        l \in LossValues, nt \in 0..MaxCount,
        ns \in 0..MaxCount, nc \in 0..MaxCount } \cup { {} }

WellFormedRecord(log) ==
    \A p \in log : p[1] = "ncorrect" =>
        \E q \in log : q[1] = "nsentences" /\ p[2] <= q[2]

LogLists ==
    UNION { SeqsUpTo({ r \in LogRecords(sa) : WellFormedRecord(r) }, MaxLogs) :
            sa \in BOOLEAN }

\* log.get(key, default)
Get(log, key, default) ==
    IF \E p \in log : p[1] = key
    THEN (CHOOSE p \in log : p[1] = key)[2]
    ELSE default

\* sum(log.get(key, 0) for log in logging_outputs)
SumGet(logs, key) == SumSeq([i \in 1..Len(logs) |-> Get(logs[i], key, 0)])

\* metrics.log_scalar(key, num / den / math.log(2), weight, round=3)
LogScalarBits(key, num, den, weight) ==
    [op |-> "log_scalar", key |-> key, value |-> Frac(num, den), over_ln2 |-> TRUE,
     weight |-> weight, round |-> 3, from |-> "-"]

\* metrics.log_scalar(key, num / den, weight, round=3)
LogScalar(key, num, den, weight) ==
    [op |-> "log_scalar", key |-> key, value |-> Frac(num, den), over_ln2 |-> FALSE,
     weight |-> weight, round |-> 3, from |-> "-"]

\* metrics.log_derived(key, lambda meters: utils.get_perplexity(meters[from].avg))
LogDerivedPpl(key, from) ==
    [op |-> "log_derived", key |-> key, value |-> RZero, over_ln2 |-> FALSE,
     weight |-> 0, round |-> 0, from |-> from]

\* the perplexity always derived from "loss", also when nll_loss is logged
PerplexityPartFromLoss(loss_sum, sample_size, ntokens) ==
    IF sample_size # ntokens
    THEN IF ntokens = 0
         THEN [log |-> <<>>, err |-> "ZeroDivisionError"]
         ELSE [log |-> << LogScalarBits("nll_loss", loss_sum, ntokens, ntokens),
                          LogDerivedPpl("ppl", "loss") >>,
               err |-> "none"]
    ELSE [log |-> << LogDerivedPpl("ppl", "loss") >>, err |-> "none"]

\* lines 109-119: the nll_loss metric and the perplexity's source
PerplexityPart(loss_sum, sample_size, ntokens) ==
    IF sample_size # ntokens
    THEN IF ntokens = 0
         THEN [log |-> <<>>, err |-> "ZeroDivisionError"]
         ELSE [log |-> << LogScalarBits("nll_loss", loss_sum, ntokens, ntokens),
                          LogDerivedPpl("ppl", "nll_loss") >>,
               err |-> "none"]
    ELSE [log |-> << LogDerivedPpl("ppl", "loss") >>, err |-> "none"]

\* the accuracy as a fraction of 1 instead of a percentage
AccuracyPartNoPercent(ncorrect, nsentences) ==
    IF nsentences = 0
    THEN [log |-> <<>>, err |-> "ZeroDivisionError"]
    ELSE [log |-> << LogScalar("accuracy", ncorrect, nsentences, nsentences) >>,
          err |-> "none"]

\* lines 121-125: the accuracy metric
AccuracyPart(ncorrect, nsentences) ==
    IF nsentences = 0
    THEN [log |-> <<>>, err |-> "ZeroDivisionError"]
    ELSE [log |-> << LogScalar("accuracy", 100 * ncorrect, nsentences, nsentences) >>,
          err |-> "none"]

\* CrossEntropyCriterion.reduce_metrics(logging_outputs): the metrics calls made, in
\* order, and the exception that ended the call, if one did
ReduceMetrics(logs) ==
    LET loss_sum    == SumGet(logs, "loss")
        ntokens     == SumGet(logs, "ntokens")
        sample_size == SumGet(logs, "sample_size")
    IN  IF sample_size = 0
        THEN [log |-> <<>>, err |-> "ZeroDivisionError"]
        ELSE LET first == << LogScalarBits("loss", loss_sum, sample_size, sample_size) >>
                 ppl   == PerplexityPart(loss_sum, sample_size, ntokens)
             IN  IF ppl.err # "none"
                 THEN [log |-> first \o ppl.log, err |-> ppl.err]
                 ELSE LET acc == AccuracyPart(SumGet(logs, "ncorrect"),
                                              SumGet(logs, "nsentences"))
                      IN  [log |-> first \o ppl.log \o acc.log, err |-> acc.err]

\* the trainer's call of reduce_metrics on the gathered logging outputs
CallReduceMetrics ==
    /\ metricsErr = "pending"
    /\ LET r == ReduceMetrics(loggingOutputs)
       IN  /\ metricsLog' = r.log
           /\ metricsErr' = r.err
    /\ UNCHANGED loggingOutputs
    /\ UNCHANGED <<profVars, collVars, critVars>>

(***************************************************************************)
(* The four programs, one specification each; the variables of the other   *)
(* programs stay at rest.                                                  *)
(***************************************************************************)
IdleForward == [NoForward EXCEPT !.status = "idle"]

IdleLoss == [NoLoss EXCEPT !.status = "idle"]

IdleTask == [encoder_contrastive |-> FALSE, sentence_avg |-> FALSE]

\* the script starts: profiles = defaultdict(list), nothing read, nothing written
InitProfiles ==
    /\ argsPath \in CheckpointPaths
    /\ dataset \in Datasets
    /\ cursor = 0 /\ keys = <<>> /\ profiles = <<>> /\ keyIdx = 0 /\ count = 0
    /\ stdout = <<>> /\ savePath = <<>> /\ disk = <<>> /\ pc = "loop"
    /\ cDataset = <<>> /\ cBatch = <<>> /\ cOut = NoBatchOut /\ cpc = "idle"
    /\ task = IdleTask /\ sample = <<>> /\ reduceArg = TRUE
    /\ fwdOut = IdleForward /\ lossOut = IdleLoss
    /\ loggingOutputs = <<>> /\ metricsLog = <<>> /\ metricsErr = "idle"

\* a MyDataset has been constructed; nothing fetched yet
InitCollate ==
    /\ cDataset \in CollateDatasets
    /\ cBatch = <<>> /\ cOut = NoBatchOut /\ cpc = "fetch"
    /\ argsPath = <<>> /\ dataset = <<>> /\ cursor = 0 /\ keys = <<>>
    /\ profiles = <<>> /\ keyIdx = 0 /\ count = 0 /\ stdout = <<>>
    /\ savePath = <<>> /\ disk = <<>> /\ pc = "idle"
    /\ task = IdleTask /\ sample = <<>> /\ reduceArg = TRUE
    /\ fwdOut = IdleForward /\ lossOut = IdleLoss
    /\ loggingOutputs = <<>> /\ metricsLog = <<>> /\ metricsErr = "idle"

\* a criterion has been constructed for a task; a batch is at hand
InitCriterion ==
    /\ task \in [encoder_contrastive : BOOLEAN, sentence_avg : BOOLEAN]
    /\ sample \in Samples
    /\ reduceArg \in BOOLEAN
    /\ fwdOut = NoForward /\ lossOut = NoLoss
    /\ argsPath = <<>> /\ dataset = <<>> /\ cursor = 0 /\ keys = <<>>
    /\ profiles = <<>> /\ keyIdx = 0 /\ count = 0 /\ stdout = <<>>
    /\ savePath = <<>> /\ disk = <<>> /\ pc = "idle"
    /\ cDataset = <<>> /\ cBatch = <<>> /\ cOut = NoBatchOut /\ cpc = "idle"
    /\ loggingOutputs = <<>> /\ metricsLog = <<>> /\ metricsErr = "idle"

\* logging outputs have been gathered; reduce_metrics has not been called
InitMetrics ==
    /\ loggingOutputs \in LogLists
    /\ metricsLog = <<>> /\ metricsErr = "pending"
    /\ argsPath = <<>> /\ dataset = <<>> /\ cursor = 0 /\ keys = <<>>
    /\ profiles = <<>> /\ keyIdx = 0 /\ count = 0 /\ stdout = <<>>
    /\ savePath = <<>> /\ disk = <<>> /\ pc = "idle"
    /\ cDataset = <<>> /\ cBatch = <<>> /\ cOut = NoBatchOut /\ cpc = "idle"
    /\ task = IdleTask /\ sample = <<>> /\ reduceArg = TRUE
    /\ fwdOut = IdleForward /\ lossOut = IdleLoss

NextProfiles == Accumulate \/ EndOfPass \/ Finalize \/ EndOfReduce \/ Save

NextCollate == Fetch \/ Collate

NextCriterion == CallForward \/ CallComputeLoss

NextMetrics == CallReduceMetrics

SpecProfiles == InitProfiles /\ [][NextProfiles]_vars

SpecCollate == InitCollate /\ [][NextCollate]_vars

SpecCriterion == InitCriterion /\ [][NextCriterion]_vars

SpecMetrics == InitMetrics /\ [][NextMetrics]_vars

(***************************************************************************)
(* Properties of the profile generation script (SpecProfiles)              *)
(***************************************************************************)
\* the positions in the dataset at which identifier id was observed
ObservedAt(id) == { i \in 1..Len(dataset) : dataset[i].id = id }

\* the embedding appended for observation i
EmbeddingOf(i) == TimeMean(Squeeze(dataset[i].x))

\* the orders in which the observations of a set of positions can arrive
Orders(I) ==
    { f \in [1..Cardinality(I) -> I] : \A a, b \in 1..Cardinality(I) : a # b => f[a] # f[b] }

RECURSIVE ProdDen(_, _)
ProdDen(I, c) ==
    IF I = {} THEN 1
    ELSE LET i == CHOOSE j \in I : TRUE IN EmbeddingOf(i)[c][2] * ProdDen(I \ {i}, c)

RECURSIVE ScaledSum(_, _, _)
ScaledSum(I, c, L) ==
    IF I = {} THEN 0
    ELSE LET i == CHOOSE j \in I : TRUE
         IN  EmbeddingOf(i)[c][1] * (L \div EmbeddingOf(i)[c][2]) + ScaledSum(I \ {i}, c, L)

\* m is the sum of channel c of the embeddings at positions I, divided by their
\* number, as a fraction in lowest terms (checked by cross-multiplication)
IsMeanOf(m, I, c) ==
    LET L == ProdDen(I, c)
    IN  /\ m[2] > 0
        /\ GCD(Abs(m[1]), m[2]) = 1
        /\ m[1] * Cardinality(I) * L = m[2] * ScaledSum(I, c, L)

SavedEntry(k) == disk[1].content[k]

\* C1: after accumulation and finalisation the stored profile of every identifier
\* is the elementwise mean of exactly the embeddings observed with it, and it is
\* what the reduction yields on every order of arrival of those observations
C1_ProfileIsMeanOfObservations ==
    pc = "done" =>
        /\ Len(disk) = 1
        /\ { disk[1].keys[k] : k \in 1..Len(disk[1].keys) } =
               { dataset[i].id : i \in 1..Len(dataset) }
        /\ \A k \in 1..Len(disk[1].keys) :
              LET I == ObservedAt(disk[1].keys[k])
              IN  /\ SavedEntry(k).kind = "mean"
                  /\ \A c \in 1..Len(SavedEntry(k).val) :
                        IsMeanOf(SavedEntry(k).val[c], I, c)
                  /\ \A f \in Orders(I) :
                        SavedEntry(k).val =
                            StackMean([j \in 1..Cardinality(I) |-> EmbeddingOf(f[j])])

\* identifier "A" observed with [1,1] and with [3,3] (and "B" in between) is
\* stored as [2,2]
C1_Witness ==
    /\ pc = "done"
    /\ Len(dataset) = 3
    /\ dataset[1].id = "A" /\ EmbeddingOf(1) = << <<1, 1>>, <<1, 1>> >>
    /\ dataset[2].id = "B"
    /\ dataset[3].id = "A" /\ EmbeddingOf(3) = << <<3, 1>>, <<3, 1>> >>
    /\ SavedEntry(1).val = << <<2, 1>>, <<2, 1>> >>

\* the directory a checkpoint file lies in: what precedes the last '/', and the
\* working directory "." for a bare file name
ContainingDir(path) ==
    IF \E i \in 1..Len(path) : path[i] = "/"
    THEN SubSeq(path, 1, (CHOOSE i \in 1..Len(path) :
                             path[i] = "/" /\ \A j \in (i + 1)..Len(path) : path[j] # "/") - 1)
    ELSE <<".">>

\* C8: the mapping is saved to <directory of the checkpoint>/profile.pt
C8_SavedInCheckpointDirectory ==
    \A w \in 1..Len(disk) : disk[w].path = ContainingDir(argsPath) \o ProfileSuffix

AllLists == \A i \in 1..Len(profiles) : profiles[i].kind = "list"

AllMeans == \A i \in 1..Len(profiles) : profiles[i].kind = "mean"

\* C10: no entry is reduced before the pass over the dataset has ended; every
\* identifier that occurred is finalised exactly once (a reduced entry never
\* changes again, and all are reduced when the script ends); the mapping is
\* written exactly once, after every entry is reduced; nothing changes after it
C10_Lifecycle ==
    /\ [](cursor < Len(dataset) => AllLists)
    /\ [](Len(disk) <= 1)
    /\ [](Len(disk) = 1 => AllMeans /\ disk[1].content = profiles /\ disk[1].keys = keys)
    /\ [](pc = "done" =>
             /\ Len(disk) = 1
             /\ { keys[i] : i \in 1..Len(keys) } = { dataset[i].id : i \in 1..Len(dataset) }
             /\ Len(stdout) = Len(keys)
             /\ \A i \in 1..Len(keys) : stdout[i][1] = keys[i])
    /\ [][ /\ \A i \in 1..Len(profiles) :
                profiles[i].kind = "mean" => profiles'[i] = profiles[i]
           /\ Len(profiles') >= Len(profiles)
           /\ Len(disk) = 1 => (profiles' = profiles /\ disk' = disk) ]_vars

\* two identifiers were observed, both are reduced and the mapping is on disk
C10_Witness ==
    /\ pc = "done" /\ Len(disk) = 1 /\ Len(keys) = 2 /\ Len(dataset) = 3 /\ AllMeans

(***************************************************************************)
(* Properties of collate_fn (SpecCollate)                                  *)
(***************************************************************************)
\* the time length k_i of example i of the batch
TimeLen(i) == Len(cDataset[i].x[1])

\* max_i k_i
MaxTimeLen ==
    CHOOSE m \in 0..MaxLen :
        /\ \E i \in 1..Len(cDataset) : TimeLen(i) = m
        /\ \A i \in 1..Len(cDataset) : TimeLen(i) <= m

\* C2: the mask collate_fn returns has shape (batch size, max_i k_i), and its entry
\* for example i and position t (0-based) is 1 exactly when t < k_i, else 0
C2_MaskMarksOriginalPositions ==
    cpc = "done" =>
        /\ cOut.status = "ok"
        /\ Len(cOut.lengths) = Len(cDataset)
        /\ \A i \in 1..Len(cDataset) :
              /\ Len(cOut.lengths[i]) = MaxTimeLen
              /\ \A t \in 0..(MaxTimeLen - 1) :
                    cOut.lengths[i][t + 1] = IF t < TimeLen(i) THEN 1 ELSE 0

\* a batch of a shorter and a longer example: the shorter one's mask ends in 0
C2_Witness ==
    /\ cpc = "done"
    /\ Len(cDataset) = 2
    /\ TimeLen(1) = 1 /\ TimeLen(2) = 2
    /\ cOut.lengths = << <<1, 0>>, <<1, 1>> >>

\* C3: the padded features have time length max_i k_i; the first k_i frames of
\* example i are its feature array unchanged and every later frame is all zeros
C3_PaddingOnlyExtendsWithZeros ==
    cpc = "done" =>
        /\ cOut.status = "ok"
        /\ Len(cOut.features) = Len(cDataset)
        /\ \A i \in 1..Len(cDataset) :
              /\ Len(cOut.features[i]) = Len(cDataset[i].x)
              /\ \A f \in 1..Len(cDataset[i].x) :
                    /\ Len(cOut.features[i][f]) = MaxTimeLen
                    /\ \A t \in 1..MaxTimeLen :
                          cOut.features[i][f][t] =
                              IF t <= TimeLen(i) THEN cDataset[i].x[f][t] ELSE 0

\* a one-frame example collated with a two-frame one gains one frame of zeros
C3_Witness ==
    /\ cpc = "done"
    /\ Len(cDataset) = 2
    /\ TimeLen(1) = 2 /\ TimeLen(2) = 1
    /\ \A f \in 1..Len(cDataset[2].x) :
          /\ cOut.features[2][f][1] = cDataset[2].x[f][1]
          /\ cOut.features[2][f][1] # 0
          /\ cOut.features[2][f][2] = 0

(***************************************************************************)
(* Properties of CrossEntropyCriterion.forward / compute_loss              *)
(* (SpecCriterion)                                                         *)
(***************************************************************************)
AllTargets(c) == [i \in 1..Len(sample.target) |-> c]

\* the reduced loss compute_loss returns for the batch at hand with every target
\* replaced by class c, the model's output unchanged
LossWithTargets(c) ==
    LET smp == [sample EXCEPT !.target = AllTargets(c)]
    IN  ComputeLoss(task, ModelCall(task, smp), smp, TRUE).loss[1]

\* the sum over the rows of the log-probability of class c
ColumnSum(c) == SumSeq([i \in 1..Len(sample.rows) |-> sample.rows[i].lp[c + 1]])

\* compute_loss has returned, auxiliary mode off, reduce=True, all targets class 1
MinorityBatchReduced ==
    /\ lossOut.status = "returned"
    /\ ~task.encoder_contrastive
    /\ reduceArg
    /\ sample.target = AllTargets(1)

\* C4 as stated: on the same log-probabilities the all-minority loss is 7 times
\* the all-majority loss
C4_MinorityLossIsSevenTimesMajority ==
    MinorityBatchReduced => lossOut.loss[1][1] = 7 * LossWithTargets(0)[1]

\* C4, amended: the all-minority loss is 7 times the plain sum of -lprobs[i][1],
\* the all-majority loss is the plain sum of -lprobs[i][0], and so the first is
\* 7 times the second exactly when the two column sums of lprobs are equal
C4_WeightSevenOnMinorityColumn ==
    MinorityBatchReduced =>
        /\ lossOut.loss = << <<7 * (-ColumnSum(1)), RZero>> >>
        /\ LossWithTargets(0) = <<-ColumnSum(0), RZero>>
        /\ (lossOut.loss[1][1] = 7 * LossWithTargets(0)[1]) <=> (ColumnSum(1) = ColumnSum(0))

\* two rows whose column sums agree (3/4,1/4 and 1/4,3/4): 1694 = 7 * 242
C4_Witness ==
    /\ MinorityBatchReduced
    /\ Len(sample.rows) = 2
    /\ sample.rows[1].lp # sample.rows[2].lp
    /\ ColumnSum(1) = ColumnSum(0)
    /\ lossOut.loss[1][1] = 1694
    /\ LossWithTargets(0)[1] = 242

\* C6: forward completes in both modes and returns (loss, sample size, logging
\* record with loss, ntokens, nsentences, sample_size, ncorrect, predicts, targets)
C6_ForwardReturnsInBothModes ==
    fwdOut.status # "none" =>
        /\ fwdOut.status = "returned"
        /\ Len(fwdOut.loss) >= 1
        /\ fwdOut.sample_size > 0
        /\ fwdOut.logging_output.nsentences = Len(sample.target)
        /\ fwdOut.logging_output.targets = sample.target
        /\ Len(fwdOut.logging_output.predicts) = Len(sample.target)

\* the weighted negative log-likelihood term of example i
ClassificationTerm(i) ==
    -((IF sample.target[i] = 1 THEN 7 ELSE 1) * sample.rows[i].lp[sample.target[i] + 1])

\* C7: with the auxiliary mode off the loss compute_loss returns is the weighted
\* negative log-likelihood alone, with no rational (reconstruction, contrastive)
\* part, and it is the same for every autoencoder and hidden value of the model
C7_DisabledLossIsClassificationOnly ==
    (lossOut.status = "returned" /\ ~task.encoder_contrastive) =>
        /\ lossOut.loss =
              IF reduceArg
              THEN << <<SumSeq([i \in 1..Len(sample.target) |-> ClassificationTerm(i)]),
                        RZero>> >>
              ELSE [i \in 1..Len(sample.target) |-> <<ClassificationTerm(i), RZero>>]
        /\ \A a, b \in AEVectors, h \in HiddenPairs :
              LET smp == [sample EXCEPT !.ae_input = a, !.ae_output = b, !.hidden = h]
              IN  ComputeLoss(task, ModelCall(task, smp), smp, reduceArg).loss = lossOut.loss

\* auxiliary mode off while the autoencoder reconstructs badly and the hidden
\* representations lie far apart: the loss is the classification term of a
\* minority and a majority example, 7 * 200 + 42
C7_Witness ==
    /\ lossOut.status = "returned" /\ ~task.encoder_contrastive /\ reduceArg
    /\ sample.ae_input # sample.ae_output /\ sample.hidden = "far"
    /\ sample.target = <<1, 0>>
    /\ lossOut.loss = << <<1442, RZero>> >>

(***************************************************************************)
(* Properties of CrossEntropyCriterion.reduce_metrics (SpecMetrics)        *)
(***************************************************************************)
\* the sum of a field over the records, taken record by record in any order
RECURSIVE TotalOver(_, _)
TotalOver(I, key) ==
    IF I = {} THEN 0
    ELSE LET i == CHOOSE j \in I : TRUE
         IN  (IF \E p \in loggingOutputs[i] : p[1] = key
              THEN (CHOOSE p \in loggingOutputs[i] : p[1] = key)[2]
              ELSE 0) + TotalOver(I \ {i}, key)

Total(key) == TotalOver(1..Len(loggingOutputs), key)

\* the log_scalar calls made for a key
Logged(key) ==
    { i \in 1..Len(metricsLog) : metricsLog[i].op = "log_scalar" /\ metricsLog[i].key = key }

\* the log_derived calls made for a key
Derived(key) ==
    { i \in 1..Len(metricsLog) : metricsLog[i].op = "log_derived" /\ metricsLog[i].key = key }

\* entry e carries the value num / den, den # 0 (by cross-multiplication)
HasValue(e, num, den) == den # 0 /\ e.value[2] # 0 /\ e.value[1] * den = num * e.value[2]

\* the accuracy metric 100 * sum(ncorrect) / sum(nsentences), weighted by the
\* summed nsentences, was logged
AccuracyLogged ==
    \E i \in Logged("accuracy") :
        /\ HasValue(metricsLog[i], 100 * Total("ncorrect"), Total("nsentences"))
        /\ ~metricsLog[i].over_ln2
        /\ metricsLog[i].weight = Total("nsentences")

LossMetricsAsDescribed ==
    /\ \E i \in Logged("loss") :
          /\ HasValue(metricsLog[i], Total("loss"), Total("sample_size"))
          /\ metricsLog[i].over_ln2
    /\ Cardinality(Derived("ppl")) = 1
    /\ IF Total("sample_size") # Total("ntokens")
       THEN /\ \E i \in Logged("nll_loss") :
                  /\ HasValue(metricsLog[i], Total("loss"), Total("ntokens"))
                  /\ metricsLog[i].over_ln2
            /\ \A i \in Derived("ppl") : metricsLog[i].from = "nll_loss"
       ELSE /\ Logged("nll_loss") = {}
            /\ \A i \in Derived("ppl") : metricsLog[i].from = "loss"

\* C9 as stated: for every non-empty list of records
C9_LossMetricsForEveryNonEmptyList ==
    (metricsErr # "pending" /\ Len(loggingOutputs) >= 1) => LossMetricsAsDescribed

\* C9, amended: for every list whose summed sample_size and summed ntokens are
\* both non-zero
C9_LossMetricsWhenDenominatorsNonZero ==
    (/\ metricsErr # "pending"
     /\ Total("sample_size") # 0 /\ Total("ntokens") # 0) =>
        LossMetricsAsDescribed

\* sample_size sums to 1 and ntokens to 2: nll_loss is logged as 7/2 and the
\* perplexity comes from it
C9_Witness ==
    /\ metricsErr # "pending"
    /\ Len(loggingOutputs) = 2
    /\ Total("sample_size") = 1 /\ Total("ntokens") = 2 /\ Total("loss") = 7
    /\ \E i \in Logged("nll_loss") : metricsLog[i].value = <<7, 2>>
    /\ \E i \in Logged("loss") : metricsLog[i].value = <<7, 1>>
    /\ \A i \in Derived("ppl") : metricsLog[i].from = "nll_loss"

====
